---- MODULE Spec2Model ----
(***************************************************************************)
(* libphonenumber-hook: a webhook that, for a tag push on the upstream     *)
(* repository, clones the downstream repository, fetches the release's     *)
(* javascript files, commits them on a version branch, pushes the branch   *)
(* and opens a pull request.                                               *)
(*                                                                         *)
(* Two variants of the pipeline are modelled side by side:                 *)
(*   "api"      src/api/handler.go       (Handler, per-file raw downloads) *)
(*   "webhooks" src/webhooks/handler.go  (Handle, release tarball)         *)
(*                                                                         *)
(* Strings are sequences of tokens.  The tokens are chosen so that the     *)
(* substrings the code searches for ("refs/tags/", "refs/tags/v", ".",     *)
(* "javascript/i18n/phonenumbers/") are whole tokens or token pairs and    *)
(* cannot arise across any other token boundary.                           *)
(***************************************************************************)
EXTENDS Integers, Sequences, FiniteSets, TLC

\* ------------------------------------------------------------------ bounds
MaxRefLen == 2      \* references: every token string up to this length
MaxEntries == 2     \* tarball: every entry sequence up to this length
MaxTime == 2        \* time.Now() of concurrent runs: seconds 1..MaxTime

Runs == {1, 2}

\* ----------------------------------------------------------------- strings
\* strings.Contains / strings.Index: s has p at position i
HasAt(s, p, i) ==
    /\ i + Len(p) - 1 <= Len(s)
    /\ \A k \in 1..Len(p) : s[i + k - 1] = p[k]

Contains(s, p) == \E i \in 1..(Len(s) + 1) : HasAt(s, p, i)

\* strings.Replace(s, old, new, -1): every non-overlapping occurrence, found
\* left to right, the result is not scanned again
RECURSIVE ReplaceFrom(_, _, _, _)
ReplaceFrom(s, old, new, i) ==
    IF i > Len(s) THEN <<>>
    ELSE IF HasAt(s, old, i) THEN new \o ReplaceFrom(s, old, new, i + Len(old))
    ELSE <<s[i]>> \o ReplaceFrom(s, old, new, i + 1)

Replace(s, old, new) == ReplaceFrom(s, old, new, 1)

\* filepath.Base of a path given as its components
Base(path) == path[Len(path)]

RECURSIVE SeqsUpTo(_, _)
SeqsUpTo(S, n) ==
    IF n = 0 THEN {<<>>}
    ELSE LET shorter == SeqsUpTo(S, n - 1)
         IN shorter \cup {Append(s, x) : s \in shorter, x \in S}

\* -------------------------------------------------------------- references
Tokens == {"refs/tags/", "refs/heads/", "v", "1", "."}

TagNamespace == <<"refs/tags/">>
TagPrefix == <<"refs/tags/", "v">>

\* the reference is a tag: strings.Contains(push.Ref, "refs/tags/")
IsTagAnyRef(ref) == Contains(ref, <<"refs/tags/">>) \/ Contains(ref, <<"refs/heads/">>)
IsTag(ref) == Contains(ref, TagNamespace)

\* version := strings.Replace(push.Ref, "refs/tags/v", "", -1)
DeriveVersion(ref) == Replace(ref, TagPrefix, <<>>)

\* fmt.Sprintf(remoteBranchFormat, strings.Replace(version, ".", "-", -1))
BranchName(version) ==
    <<"support/update-libphonenumber-">> \o Replace(version, <<".">>, <<"-">>)

\* references with a shape of their own, beyond the short ones
LongRefs == {
    <<"refs/tags/", "v", "1", ".", "1">>,             \* refs/tags/v1.1
    <<"refs/tags/", "v", "1", "-", "1">>,             \* refs/tags/v1-1
    <<"refs/heads/", "refs/tags/", "v", "1">>,        \* text before the prefix
    <<"refs/tags/", "v", "refs/tags/", "v", "1">>,    \* the prefix twice
    <<"refs/tags/", "refs/tags/", "v", "v", "1">> }   \* a removal joins a new one

Refs == SeqsUpTo(Tokens, MaxRefLen) \cup LongRefs

\* ------------------------------------------------------- files and commits
\* filenames (src/api/handler.go): the files downloaded one by one; two of
\* the fourteen names stand for the list
filenames == <<"metadata.js", "demo.js">>

\* base names that can appear under <directory>/src
Names == {"metadata.js", "demo.js"}

Absent == <<-1>>                        \* no such file
EmptyDir == [f \in Names |-> Absent]

\* master of the downstream repository: metadata.js is tracked, demo.js
\* does not exist yet
MasterTree == [f \in Names |-> IF f = "metadata.js" THEN <<0, 0, 0>> ELSE Absent]
MasterCommit == [parent |-> "root", tree |-> MasterTree, msg |-> <<>>, when |-> 0]
NoCommit == [parent |-> "none", tree |-> EmptyDir, msg |-> <<>>, when |-> 0]

\* what raw.githubusercontent.com serves for a file of the release, and the
\* body it sends with a 404
RawBytes(f) == IF f = "metadata.js" THEN <<1>> ELSE <<2, 1>>
NotFoundBytes == <<4, 0, 4>>

\* os.Create: the file is created or truncated, then the bytes are written
WriteTruncate(old, data) == data

\* os.OpenFile(path, os.O_CREATE|os.O_RDWR, mode) and io.Copy from offset 0:
\* the bytes of an existing file beyond the copied ones stay
WriteNoTruncate(old, data) ==
    IF old = Absent THEN data
    ELSE data \o SubSeq(old, Len(data) + 1, Len(old))

\* worktree.Checkout with Force: a hard reset to the commit's tree, which
\* restores every tracked file and removes the untracked ones
HardReset(tree, wt) == tree

\* worktree.Commit with All: modified and deleted tracked files are staged,
\* files git does not know are not
CommitAll(tree, wt) == [f \in Names |-> IF tree[f] = Absent THEN Absent ELSE wt[f]]

\* the commits reachable from c (every commit the program creates is a
\* child of master)
Ancestors(c) == IF c.parent = "root" THEN {c} ELSE {c, MasterCommit}

\* ----------------------------------------------------------------- tarball
Marker == <<"javascript/i18n/phonenumbers/">>

\* tar entries of a release archive
EntryPool == {
    [name |-> <<"javascript/i18n/phonenumbers/", "metadata.js">>, reg |-> TRUE, data |-> <<1>>],
    [name |-> <<"javascript/i18n/phonenumbers/", "sub/", "metadata.js">>, reg |-> TRUE, data |-> <<2, 2>>],
    [name |-> <<"javascript/i18n/phonenumbers/", "demo.js">>, reg |-> TRUE, data |-> <<2, 1>>],
    [name |-> <<"javascript/i18n/phonenumbers/", "demo.js">>, reg |-> FALSE, data |-> <<>>],
    [name |-> <<"java/", "metadata.js">>, reg |-> TRUE, data |-> <<2>>] }

\* a response of the archive endpoint: the status, whether the body is a
\* gzip stream, its tar entries, and the entry at which the tar stream is
\* corrupt (0: nowhere; Len(entries) + 1: the end-of-archive is missing).
\* A body that is no gzip stream has no entries to tell apart.
Archives ==
    UNION { { [gzip |-> TRUE, entries |-> es, tarErrAt |-> k] : k \in 0..(Len(es) + 1) } :
            es \in SeqsUpTo(EntryPool, MaxEntries) }

Responses ==
    { [status |-> st, gzip |-> b.gzip, entries |-> b.entries, tarErrAt |-> b.tarErrAt] :
        st \in {200, 404},
        b \in Archives \cup {[gzip |-> FALSE, entries |-> <<>>, tarErrAt |-> 0]} }

NoBody == [status |-> 0, gzip |-> FALSE, entries |-> <<>>, tarErrAt |-> 0]

\* faults of the local file system while one entry is written to src/
NoFault == [kind |-> "none", at |-> 0]
Faults(entries) ==
    {NoFault} \cup { [kind |-> k, at |-> i] : k \in {"open", "write"},
                     i \in {j \in 1..Len(entries) :
                                entries[j].reg /\ Contains(entries[j].name, Marker)} }

\* Extract's loop over the tar entries from entry i on: the directory, the
\* error it returns ("none": nil) and the copy errors it met on the way
RECURSIVE ExtractLoop(_, _, _, _, _)
ExtractLoop(body, i, dir, fault, met) ==
    IF body.tarErrAt = i
    THEN [dir |-> dir, err |-> "tar", met |-> met]               \* errRead != nil
    ELSE IF i > Len(body.entries)
    THEN [dir |-> dir, err |-> "none", met |-> met]              \* io.EOF
    ELSE LET h == body.entries[i]
             f == Base(h.name)
         IN IF ~h.reg \/ ~Contains(h.name, Marker)
            THEN ExtractLoop(body, i + 1, dir, fault, met)       \* continue
            ELSE IF fault = [kind |-> "open", at |-> i]
            THEN [dir |-> dir, err |-> "open", met |-> met]      \* errFile != nil
            ELSE IF fault = [kind |-> "write", at |-> i]
            \* io.Copy fails before a byte is written; the test reads err,
            \* which is gzip.NewReader's and nil here, so the loop goes on
            THEN ExtractLoop(body, i + 1, [dir EXCEPT ![f] = WriteNoTruncate(@, <<>>)],
                             fault, met \cup {"write"})
            ELSE ExtractLoop(body, i + 1, [dir EXCEPT ![f] = WriteNoTruncate(@, h.data)],
                             fault, met)

\* the bytes the archive holds for each base name under the marker (the last
\* entry of that name), read up to the point the stream is readable
RECURSIVE SourceOf(_, _, _)
SourceOf(body, i, src) ==
    IF i > Len(body.entries) THEN src
    ELSE LET h == body.entries[i]
         IN IF ~h.reg \/ ~Contains(h.name, Marker)
            THEN SourceOf(body, i + 1, src)
            ELSE SourceOf(body, i + 1, [src EXCEPT ![Base(h.name)] = h.data])

\* ------------------------------------------------------------------- state
VARIABLES
    req,     \* per request: variant, method, whether the payload parses, ref
    run,     \* per request: the position and the local state of its handler
    remote,  \* downstream repository on GitHub: branch name -> tip commit
    pulls    \* pull requests opened on the downstream repository

vars == <<req, run, remote, pulls>>

NoResponse == [status |-> 0, body |-> "none"]

FreshRun == [
    pc |-> "receive",      \* next step of the handler
    outcome |-> "running", \* "returned", "panic" (log.Panic), "exit" (log.Fatal)
    response |-> NoResponse,
    skipped |-> FALSE,     \* "Push reference is not a tag, skipping" was logged
    version |-> <<>>,
    calls |-> {},          \* stages that ran
    errs |-> {},           \* stages whose call reported an error
    non200 |-> FALSE,      \* an upstream GET answered with a status other than 200
    body |-> NoBody,       \* webhooks: the response of the archive endpoint
    i |-> 1,               \* api: index of the next file to download
    wt |-> EmptyDir,       \* <directory>/src of the working tree
    head |-> NoCommit,     \* commit HEAD points at
    branch |-> <<>>,       \* branch checked out (<<>>: master)
    source |-> EmptyDir,   \* bytes upstream served for each file name
    staged |-> EmptyDir,   \* <directory>/src as the fetch step left it
    fetched |-> FALSE,     \* the fetch step returned without an error
    commit |-> NoCommit,   \* the commit worktree.Commit created
    adv |-> {},            \* push: the remote's advertised tip of the branch
    pushErr |-> "none",
    pushed |-> FALSE ]

Requests(variants, methods, refs) ==
    [variant : variants, method : methods, parses : BOOLEAN, ref : refs]

Idle == [FreshRun EXCEPT !.pc = "off"]

\* one request; the second handler never starts
Init ==
    /\ req \in [Runs -> Requests({"api", "webhooks"}, {"POST", "GET"}, Refs)]
    /\ req[2] = [variant |-> "api", method |-> "GET", parses |-> FALSE, ref |-> <<>>]
    /\ run = [r \in Runs |-> IF r = 1 THEN FreshRun ELSE Idle]
    /\ remote = [b \in {<<"master">>} |-> MasterCommit]
    /\ pulls = {}

\* ----------------------------------------------------------------- helpers
Set(r, rr) == run' = [run EXCEPT ![r] = rr]

\* log.Panic(err): the handler unwinds, nothing after it runs
PanicAcknowledged(rr, stage) ==
    [rr EXCEPT !.pc = "done", !.outcome = "panic", !.errs = @ \cup {stage},
               !.response = [status |-> 200, body |-> "OK"]]
Panic(rr, stage) ==
    [rr EXCEPT !.pc = "done", !.outcome = "panic", !.errs = @ \cup {stage}]

\* log.Fatal(err): the process exits
Fatal(rr, stage) ==
    [rr EXCEPT !.pc = "done", !.outcome = "exit", !.errs = @ \cup {stage}]

\* ----------------------------------------------------------------- actions
\* Handler (api) and Handle (webhooks) up to the call of HandleEvent
Handle(r) ==
    /\ run[r].pc = "receive"
    /\ UNCHANGED <<req, remote, pulls>>
    /\ LET rr == run[r]
           q == req[r]
       IN IF q.variant = "api" /\ q.method # "POST"
          THEN Set(r, [rr EXCEPT !.pc = "done", !.outcome = "returned",
                          !.response = [status |-> 405,
                                        body |-> "Method not supported by libphonenumber-hook"]])
          \* hook.Parse answers ErrInvalidHTTPMethod to a method other than
          \* POST before it reads the payload
          ELSE IF q.method # "POST" \/ ~q.parses
          THEN Set(r, Panic([rr EXCEPT !.calls = @ \cup {"parse"}], "parse"))
          ELSE Set(r, [rr EXCEPT !.pc = "event", !.calls = @ \cup {"parse"}])

\* HandleEvent: the tag filter and the version
HandleEvent(r) ==
    /\ run[r].pc = "event"
    /\ UNCHANGED <<req, remote, pulls>>
    /\ LET rr == run[r]
       IN IF ~IsTag(req[r].ref)
          THEN Set(r, [rr EXCEPT !.pc = "respond", !.skipped = TRUE])
          ELSE Set(r, [rr EXCEPT !.pc = "clone", !.version = DeriveVersion(req[r].ref)])

\* Clone: ioutil.TempDir and git.PlainClone of the downstream repository
Clone(r, env) ==
    /\ run[r].pc = "clone"
    /\ UNCHANGED <<req, remote, pulls>>
    /\ \E ok \in env.local :
        LET rr == [run[r] EXCEPT !.calls = @ \cup {"clone"}]
        IN IF ~ok THEN Set(r, Panic(rr, "clone"))
           ELSE Set(r, [rr EXCEPT !.wt = remote[<<"master">>].tree,
                                  !.head = remote[<<"master">>],
                                  !.pc = IF req[r].variant = "api" THEN "checkout" ELSE "download"])

\* Download (webhooks): http.Get of the release archive; only a transport
\* error is an error, the status of the response is not read
DownloadTarball(r, env) ==
    /\ run[r].pc = "download"
    /\ UNCHANGED <<req, remote, pulls>>
    /\ LET rr == [run[r] EXCEPT !.calls = @ \cup {"fetch"}]
       IN \/ /\ FALSE \in env.local
             /\ Set(r, Panic(rr, "download"))
          \/ \E resp \in env.responses :
                Set(r, [rr EXCEPT !.pc = "extract", !.body = resp,
                                  !.non200 = (resp.status # 200)])

\* Extract (webhooks): gzip.NewReader, then the loop over the tar entries
Extract(r, env) ==
    /\ run[r].pc = "extract"
    /\ UNCHANGED <<req, remote, pulls>>
    /\ LET rr == run[r]
       IN IF ~rr.body.gzip
          THEN Set(r, Panic(rr, "gzip"))                       \* log.Panic(err)
          ELSE \E fault \in (IF FALSE \in env.local
                             THEN Faults(rr.body.entries) ELSE {NoFault}) :
                LET res == ExtractLoop(rr.body, 1, rr.wt, fault, {})
                    met == [rr EXCEPT !.wt = res.dir, !.errs = @ \cup res.met]
                IN IF res.err # "none"
                   THEN Set(r, Panic(met, res.err))            \* HandleEvent: log.Panic(err)
                   ELSE Set(r, [met EXCEPT !.pc = "checkout", !.fetched = TRUE,
                                           !.staged = res.dir,
                                           !.source = SourceOf(rr.body, 1, EmptyDir)])

\* Commit, first part: worktree.Checkout{Create, Branch, Force}
Checkout(r, env) ==
    /\ run[r].pc = "checkout"
    /\ UNCHANGED <<req, remote, pulls>>
    /\ \E ok \in env.local :
        LET rr == run[r]
        IN IF ~ok THEN Set(r, Panic(rr, "checkout"))
           ELSE Set(r, [rr EXCEPT !.branch = BranchName(rr.version),
                                  !.wt = HardReset(rr.head.tree, rr.wt),
                                  !.pc = IF req[r].variant = "api" THEN "fetch" ELSE "commit"])

\* Commit (api), the loop over filenames: one Download per step.  os.Create,
\* http.Get, io.Copy; the status of the response is not read.  Any error
\* ends the process (log.Fatal).
DownloadFile(r, env) ==
    /\ run[r].pc = "fetch"
    /\ UNCHANGED <<req, remote, pulls>>
    /\ LET rr == [run[r] EXCEPT !.calls = @ \cup {"fetch"}]
           f == filenames[rr.i]
           last == rr.i = Len(filenames)
       IN \/ /\ FALSE \in env.local                            \* os.Create fails
             /\ Set(r, Fatal(rr, "download"))
          \/ /\ FALSE \in env.local                            \* http.Get or io.Copy fails
             /\ Set(r, Fatal([rr EXCEPT !.wt[f] = WriteTruncate(@, <<>>)], "download"))
          \/ \E status \in env.statuses :
                LET bytes == IF status = 200 THEN RawBytes(f) ELSE NotFoundBytes
                    wt == [rr.wt EXCEPT ![f] = WriteTruncate(@, bytes)]
                IN Set(r, [rr EXCEPT !.wt = wt,
                                     !.source[f] = bytes,
                                     !.non200 = @ \/ status # 200,
                                     !.i = @ + 1,
                                     !.pc = IF last THEN "commit" ELSE "fetch",
                                     !.fetched = last,
                                     !.staged = IF last THEN wt ELSE @])

\* Commit, second part: worktree.Commit{All: true, When: time.Now()}
CommitTree(r, env) ==
    /\ run[r].pc = "commit"
    /\ UNCHANGED <<req, remote, pulls>>
    /\ \E ok \in env.local, now \in env.times :
        LET rr == [run[r] EXCEPT !.calls = @ \cup {"commit"}]
            c == [parent |-> "master", tree |-> CommitAll(rr.head.tree, rr.wt),
                  msg |-> rr.version, when |-> now]
        IN IF ~ok THEN Set(r, Panic(rr, "commit"))
           ELSE Set(r, [rr EXCEPT !.commit = c, !.head = c, !.pc = "push"])

\* config.RefSpec("refs/heads/<branch>:refs/heads/<branch>"): no leading "+"
RefSpecForced(version) ==
    [force |-> TRUE, src |-> BranchName(version), dst |-> BranchName(version)]
RefSpec(version) ==
    [force |-> FALSE, src |-> BranchName(version), dst |-> BranchName(version)]

\* the remote's tip of a branch: {} when the branch does not exist
Tip(b) == IF b \in DOMAIN remote THEN {remote[b]} ELSE {}

\* remote.Push, first part: the session opens, the remote advertises its
\* references and the update command is computed
PushAdvertise(r, env) ==
    /\ run[r].pc = "push"
    /\ UNCHANGED <<req, remote, pulls>>
    /\ \E ok \in env.net :
        LET rr == [run[r] EXCEPT !.calls = @ \cup {"push"}]
            rs == RefSpec(rr.version)
            old == Tip(rs.dst)
        IN IF ~ok
           THEN Set(r, Panic([rr EXCEPT !.pushErr = "transport"], "push"))
           ELSE IF old = {rr.commit}                           \* NoErrAlreadyUpToDate
           THEN Set(r, Panic([rr EXCEPT !.pushErr = "already-up-to-date"], "push"))
           ELSE IF ~rs.force /\ \E o \in old : o \notin Ancestors(rr.commit)
           THEN Set(r, Panic([rr EXCEPT !.pushErr = "non-fast-forward"], "push"))
           ELSE Set(r, [rr EXCEPT !.pc = "send", !.adv = old])

\* remote.Push, second part: the remote updates the reference if it still
\* has the advertised value (git's atomic reference update)
PushSend(r) ==
    /\ run[r].pc = "send"
    /\ UNCHANGED <<req, pulls>>
    /\ LET rr == run[r]
           dst == RefSpec(rr.version).dst
       IN IF Tip(dst) # rr.adv
          THEN /\ Set(r, Panic([rr EXCEPT !.pushErr = "rejected"], "push"))
               /\ UNCHANGED remote
          ELSE /\ Set(r, [rr EXCEPT !.pc = "pr", !.pushed = TRUE])
               /\ remote' = [b \in DOMAIN remote \cup {dst} |->
                                IF b = dst THEN rr.commit ELSE remote[b]]

\* OpenPullRequest: client.PullRequests.Create; GitHub refuses a second open
\* pull request for a head branch.  HandleEvent drops the error it returns.
OpenPullRequest(r, env) ==
    /\ run[r].pc = "pr"
    /\ UNCHANGED <<req, remote>>
    /\ \E ok \in env.net :
        LET rr == [run[r] EXCEPT !.calls = @ \cup {"pr"}]
            head == BranchName(rr.version)
        IN IF ok /\ head \in DOMAIN remote /\ ~\E p \in pulls : p.head = head
           THEN /\ pulls' = pulls \cup {[head |-> head, by |-> r]}
                /\ Set(r, [rr EXCEPT !.pc = "respond"])
           ELSE /\ UNCHANGED pulls
                /\ Set(r, [rr EXCEPT !.pc = "respond", !.errs = @ \cup {"pr"}])

\* the handler after HandleEvent returned: w.Write([]byte("OK"))
Respond(r) ==
    /\ run[r].pc = "respond"
    /\ UNCHANGED <<req, remote, pulls>>
    /\ Set(r, [run[r] EXCEPT !.pc = "done", !.outcome = "returned",
                             !.response = [status |-> 200, body |-> "OK"]])

\* ---------------------------------------------------------- specifications
\* what the environment may do: local and network calls may fail, the
\* archive endpoint answers with any response, the raw endpoint with any
\* status.  The second the clock shows only tells the commits of two runs
\* apart; a single run reads one value.
AnyEnv == [local |-> BOOLEAN, net |-> BOOLEAN, responses |-> Responses,
           statuses |-> {200, 404}, times |-> {1}]

Step(r, env) ==
    \/ Handle(r)
    \/ HandleEvent(r)
    \/ Clone(r, env)
    \/ DownloadTarball(r, env)
    \/ Extract(r, env)
    \/ Checkout(r, env)
    \/ DownloadFile(r, env)
    \/ CommitTree(r, env)
    \/ PushAdvertise(r, env)
    \/ PushSend(r)
    \/ OpenPullRequest(r, env)
    \/ Respond(r)

Next == \E r \in Runs : Step(r, AnyEnv)

Spec == Init /\ [][Next]_vars

\* two requests, both tag pushes that parse, handled concurrently; the
\* archive endpoint serves the release, every call may fail
TwiceRefs == {
    <<"refs/tags/", "v", "1", ".", "1">>,
    <<"refs/tags/", "v", "1", "-", "1">>,
    <<"refs/tags/", "v", "1">> }

Release == [status |-> 200, gzip |-> TRUE, tarErrAt |-> 0,
            entries |-> << [name |-> <<"javascript/i18n/phonenumbers/", "metadata.js">>,
                            reg |-> TRUE, data |-> <<1>>] >>]

TwiceEnv == [local |-> BOOLEAN, net |-> BOOLEAN, responses |-> {Release},
             statuses |-> {200, 404}, times |-> 1..MaxTime]

InitTwice ==
    /\ req \in [Runs -> Requests({"api", "webhooks"}, {"POST"}, TwiceRefs)]
    /\ \A r \in Runs : req[r].parses
    /\ run = [r \in Runs |-> FreshRun]
    /\ remote = [b \in {<<"master">>} |-> MasterCommit]
    /\ pulls = {}

NextTwice == \E r \in Runs : Step(r, TwiceEnv)

SpecTwice == InitTwice /\ [][NextTwice]_vars

\* ------------------------------------------------------------------ claims
OK200 == [status |-> 200, body |-> "OK"]
Outbound == {"clone", "fetch", "commit", "push", "pr"}
Finished(r) == run[r].pc = "done"

\* the reference has no "refs/tags/" in it (stated on the reference itself)
NoTagNamespace(ref) == \A i \in 1..Len(ref) : ref[i] # "refs/tags/"

\* C1: a push whose reference does not contain "refs/tags/" triggers no
\* clone, fetch, commit, push or pull request: nothing of the remote changes
\* and the run ends right after the skip is logged.
C1_NonTagIsNoOp ==
    \A r \in Runs :
        NoTagNamespace(req[r].ref) =>
            /\ run[r].calls \cap Outbound = {}
            /\ run[r].commit = NoCommit /\ ~run[r].pushed
            /\ \A p \in pulls : p.by # r
            /\ run[r].pc \in {"off", "receive", "event", "respond", "done"}
            /\ (run[r].pc = "respond" => run[r].skipped)

C1_Witness ==
    \E r \in Runs :
        /\ NoTagNamespace(req[r].ref) /\ req[r].ref # <<>>
        /\ Finished(r) /\ run[r].skipped /\ run[r].response = OK200

\* C2: a failure at any stage ends the run in a failed outcome that is
\* surfaced (panic or exit) and no later stage runs: no push without a
\* commit, no pull request without a push, no pull-request error taken for
\* success.
C2_FailFast ==
    \A r \in Runs :
        /\ (Finished(r) /\ run[r].errs # {}) => run[r].outcome \in {"panic", "exit"}
        /\ ("push" \in run[r].calls => run[r].commit # NoCommit)
        /\ ("pr" \in run[r].calls => run[r].pushed)

\* C3: for a reference that passes the tag filter the derived version is
\* exactly what follows the prefix "refs/tags/v" in the reference.
C3_VersionFollowsPrefix ==
    \A r \in Runs :
        run[r].pc = "clone" => req[r].ref = TagPrefix \o run[r].version

\* C4: after a non-200 answer of the upstream fetch no commit is created,
\* and no push or pull request follows.
C4_Non200Aborts ==
    \A r \in Runs :
        run[r].non200 => /\ run[r].commit = NoCommit
                         /\ "push" \notin run[r].calls
                         /\ "pr" \notin run[r].calls

\* C5: the commit of a successful run (every fetch answered 200, no call
\* reported an error, the branch is pushed) holds every file as the fetch
\* step left it in the working tree.
C5_CommitHoldsFetched ==
    \A r \in Runs :
        (run[r].pushed /\ run[r].errs = {} /\ ~run[r].non200)
            => run[r].commit.tree = run[r].staged

\* C6: after a successful fetch and stage step in which upstream served
\* the target file names and no others, src/ holds exactly those names, each
\* with the bytes upstream served.
Targets == {filenames[k] : k \in DOMAIN filenames}

C6_StagedIsSource ==
    \A r \in Runs :
        (/\ run[r].fetched /\ run[r].errs = {} /\ ~run[r].non200
         /\ \A f \in Names : run[r].source[f] # Absent <=> f \in Targets)
            => \A f \in Names :
                /\ run[r].staged[f] # Absent <=> f \in Targets
                /\ run[r].staged[f] = run[r].source[f]

C8_NonPostIs405 ==
    \A r \in Runs :
        (req[r].method # "POST" /\ Finished(r)) =>
            /\ run[r].response.status = 405
            /\ run[r].calls = {}

\* C9: a corrupt gzip or tar stream or a failed write of an entry makes
\* Extract fail, and no commit, push or pull request follows.
C9_ExtractFailureIsFatal ==
    \A r \in Runs :
        run[r].errs \cap {"gzip", "tar", "open", "write"} # {} =>
            /\ ~run[r].fetched
            /\ run[r].calls \cap {"commit", "push", "pr"} = {}

\* the push of run r met the branch as another run left it
Conflict(r) == run[r].pushErr \in {"already-up-to-date", "non-fast-forward", "rejected"}
SameBranch(r, o) == BranchName(run[r].version) = BranchName(run[o].version)
Derived(r) == run[r].pc \notin {"off", "receive", "event"} /\ ~run[r].skipped

\* what holds of two runs whatever their versions: the tip a run pushed is
\* never replaced, two runs on one branch do not both push, a conflict comes
\* from a run that pushed the same branch, and a head branch has at most
\* one pull request
NeverForced ==
    /\ \A r \in Runs : run[r].pushed => Tip(BranchName(run[r].version)) = {run[r].commit}
    /\ \A r, o \in Runs : (r # o /\ Derived(r) /\ Derived(o) /\ SameBranch(r, o))
                              => ~(run[r].pushed /\ run[o].pushed)
    /\ \A r \in Runs : Conflict(r) => \E o \in Runs \ {r} : SameBranch(r, o) /\ run[o].pushed
    /\ \A p, q \in pulls : p.head = q.head => p = q

\* C10 as stated: the push is never forced, the second run for a version
\* fails, a head branch gets at most one pull request, and runs for distinct
\* versions push to distinct branches and meet no conflict.
C10_DistinctVersions ==
    /\ NeverForced
    /\ \A r, o \in Runs :
        (r # o /\ Derived(r) /\ Derived(o) /\ run[r].version # run[o].version)
            => /\ ~Conflict(r)
               /\ (run[r].pushed /\ run[o].pushed) => ~SameBranch(r, o)

\* C10 as amended: as stated, but it is runs whose branch names differ that
\* meet no conflict; two distinct versions that differ only in "." against
\* "-" share a branch, and the second of them fails like a repeated run.
C10_DistinctBranches ==
    /\ NeverForced
    /\ \A r \in Runs :
        (Derived(r) /\ \A o \in Runs \ {r} : Derived(o) => ~SameBranch(r, o)) => ~Conflict(r)
    /\ \A r, o \in Runs :
        (r # o /\ Derived(r) /\ Derived(o) /\ SameBranch(r, o)
            /\ Finished(r) /\ Finished(o) /\ run[r].pushed)
            => /\ ~run[o].pushed /\ "pr" \notin run[o].calls
               /\ run[o].outcome \in {"panic", "exit"}

C10_Witness ==
    \E r, o \in Runs :
        /\ r # o /\ run[r].version = run[o].version
        /\ run[r].pushed /\ Finished(r) /\ Finished(o)
        /\ run[o].pushErr = "non-fast-forward"
        /\ Cardinality(pulls) = 1
====
